---------------------------- MODULE Spec2Model ----------------------------
(***************************************************************************)
(* State model of src/src/architecture.rs: a MIPS32 CPU (pc, gprs, hi,     *)
(* lo), the word Memory it owns, and the BIOS image loader.                *)
(*                                                                         *)
(* cpu   None before a CPU is constructed, then Some(the CPU struct),      *)
(*       cpu[2].memory.data being the words of its Memory                  *)
(* bios  the BIOS object most recently constructed, if any                 *)
(* fault "none", or the panic or abort message the session ended with      *)
(* last  the operation just performed and its arguments                    *)
(* ret   what that operation returned                                      *)
(* prev  cpu as it was before that operation                               *)
(* incs  increment_pc calls since construction (bounds the model)          *)
(*                                                                         *)
(* Representation.  TLC integers are 32-bit signed, so a u32 is kept as    *)
(* the pair <<high half, low half>> of 16-bit halves; all u32 arithmetic   *)
(* is done on the halves with an explicit carry and wraps modulo 2^32.     *)
(* usize values (addresses, offsets, lengths) are plain naturals; the      *)
(* target is taken to have a 64-bit usize, so `offset + 4` never wraps.    *)
(* Memory.data has 5*1024*1024 words: the model keeps the words at the     *)
(* addresses the operations are called with (TrackedAddrs); no other word  *)
(* is ever written, so every other word stays 0.  The bytes of a file are  *)
(* given by a generator (FileByte) instead of a 512 KB sequence.           *)
(* Memory.data is an array held by value (20 MiB).  Whether               *)
(* Memory::new_empty and CPU::new build it in a stack frame, and abort the *)
(* process with a stack overflow, or write it through the return slot and  *)
(* return, is decided by the build and by where the caller puts the        *)
(* result, not by the source: the model leaves both outcomes open.         *)
(***************************************************************************)
EXTENDS Integers, Sequences, FiniteSets, TLC

VARIABLES cpu, bios, fault, last, ret, prev, incs

vars == <<cpu, bios, fault, last, ret, prev, incs>>

---------------------------------------------------------------------------
(* Program constants *)

\* 2^16 and 2^8: the radix of the halves of a u32 and of its bytes
HALF == 256 * 256

BYTE == 2 * 128

\* const BIOS_START: u32 = 0xbfc00000  (0xbfc0 = 49088)
BIOS_START == <<49088, 0>>

BIOS_FILE_SIZE == 512 * 1024

INSTRUCTION_SIZE == 4

NUM_REGISTERS == 32

MEMORY_SIZE == 5 * 1024 * 1024

---------------------------------------------------------------------------
(* Bounds and sampled inputs *)

\* increment_pc is taken at most MaxInc times after each construction
MaxInc == 3

Zero == <<0, 0>>

AllOnes == <<HALF - 1, HALF - 1>>

\* u32 values stored by Memory.write
\* (0xdeadbeef = <<57005, 48879>>)
DeadBeef == <<57005, 48879>>

Values == {Zero, DeadBeef, AllOnes}

InRangeAddrs == {0, 1, MEMORY_SIZE - 1}

OutOfRangeAddrs == {MEMORY_SIZE, MEMORY_SIZE + 1, 2 * MEMORY_SIZE, 2147483647}

TrackedAddrs == InRangeAddrs

Addrs == InRangeAddrs \cup OutOfRangeAddrs

\* byte offsets handed to BIOS.read_word (u32 widened to usize)
Offsets == {0, 4, BIOS_FILE_SIZE - 8, BIOS_FILE_SIZE - 5, BIOS_FILE_SIZE - 4,
            BIOS_FILE_SIZE - 3, BIOS_FILE_SIZE - 1, BIOS_FILE_SIZE,
            2147483640}

\* the failures of fs::File::open, as the ErrorKind and the message of the
\* io::Error it returns: a missing file, a path through a regular file, a
\* name too long, a symlink loop, a path with an interior NUL byte
OpenErrors == {<<"NotFound", "No such file or directory">>,
               <<"NotADirectory", "Not a directory">>,
               <<"InvalidFilename", "File name too long">>,
               <<"FilesystemLoop", "Too many levels of symbolic links">>,
               <<"InvalidInput", "file name contained an unexpected NUL byte">>}

NoError == <<"none", "">>

\* what a path can name: something that does not open (open fails with
\* `err`), something that opens but cannot be read (a directory), or a
\* regular file of `len` bytes whose i-th byte is FileByte(f, i)
Files == [kind : {"unopenable"}, err : OpenErrors, len : {0}, seed : {0}]
         \cup {[kind |-> "unreadable", err |-> NoError, len |-> 0, seed |-> 0]}
         \cup [kind : {"file"},
               err  : {NoError},
               len  : {0, BIOS_FILE_SIZE - 1, BIOS_FILE_SIZE,
                       BIOS_FILE_SIZE + 1, 600 * 1024},
               seed : {0, 131}]

FileByte(f, i) == (f.seed + i) % BYTE

Min(a, b) == IF a < b THEN a ELSE b

\* pc values every one of which an arbitrary CPU struct may hold
PcSamples == {BIOS_START, <<HALF - 1, HALF - 8>>, <<0, HALF - 4>>,
              <<32767, HALF - 2>>, AllOnes}

\* register files: the one of a fresh CPU, and one with every register,
\* hi and lo distinct and non-zero
RegSamples == {[gprs |-> [i \in 0 .. NUM_REGISTERS - 1 |-> Zero],
                hi |-> Zero, lo |-> Zero],
               [gprs |-> [i \in 0 .. NUM_REGISTERS - 1 |-> <<i + 1, HALF - 1 - i>>],
                hi |-> AllOnes, lo |-> <<0, 1>>]}

\* numbers of increment_pc calls made since CPU::new: none, enough to bring
\* the low half of pc to its top (0xbfc0fffc), enough to bring pc to
\* 0xfffffff8
RunLengths == {0, 16383, 269484030}

---------------------------------------------------------------------------
(* Results of the operations *)

None == <<"None">>

Some(v) == <<"Some", v>>

Unit == <<"Unit">>

Ok(v) == <<"Ok", v>>

\* an io::Error: its ErrorKind and its message
Err(kind, msg) == <<"Err", kind, msg>>

Panic(msg) == <<"Panic", msg>>

\* the value a constructor returned, and the abort of the process on a
\* stack overflow
Returned(v) == <<"Returned", v>>

StackOverflow == <<"Abort", "stack overflow">>

NoBios == [present |-> FALSE, len |-> 0, seed |-> 0]

---------------------------------------------------------------------------
(* u32 arithmetic *)

\* u32::wrapping_add(x, n) for a small n (n < 2^16)
WrappingAddSaturating(x, n) ==
    IF x[1] = HALF - 1 /\ x[2] + n >= HALF
    THEN AllOnes
    ELSE <<x[1] + ((x[2] + n) \div HALF), (x[2] + n) % HALF>>

WrappingAdd(x, n) ==
    <<(x[1] + ((x[2] + n) \div HALF)) % HALF, (x[2] + n) % HALF>>

\* b0 | (b1 << 8) | (b2 << 16) | (b3 << 24): the bytes do not overlap, so
\* the bitwise or is the sum
LeWord(b0, b1, b2, b3) == <<b2 + BYTE * b3, b0 + BYTE * b1>>

---------------------------------------------------------------------------
(* Memory *)

ZeroWords == [a \in TrackedAddrs |-> Zero]

\* Memory::new_empty: the set of its outcomes
Memory_new_empty == {StackOverflow, Returned([data |-> ZeroWords])}

\* Memory::clear
Memory_clear_first_word(m) == [m EXCEPT !.data[0] = Zero]

Memory_clear(m) == [m EXCEPT !.data = ZeroWords]

\* Memory::write: the memory afterwards, and whether the call panicked
Memory_write_wrapping(m, addr, value) ==
    [memory |-> [m EXCEPT !.data[addr % MEMORY_SIZE] = value],
     panic  |-> FALSE]

Memory_write(m, addr, value) ==
    IF addr < MEMORY_SIZE
    THEN [memory |-> [m EXCEPT !.data[addr] = value], panic |-> FALSE]
    ELSE [memory |-> m, panic |-> TRUE]

\* Memory::read
Memory_read_off_by_one(m, addr) ==
    IF addr < MEMORY_SIZE - 1 THEN Some(m.data[addr]) ELSE None

Memory_read(m, addr) ==
    IF addr < MEMORY_SIZE THEN Some(m.data[addr]) ELSE None

---------------------------------------------------------------------------
(* BIOS *)

\* self.data[i] of a BIOS, for i < b.len
BiosByte(b, i) == FileByte(b, i)

\* BIOS::new_from_file
BIOS_new_from_file(f) ==
    IF f.kind = "unopenable"
    THEN Err(f.err[1], f.err[2])
    ELSE IF f.kind = "unreadable"
    THEN Panic("Failed to read BIOS file")
    ELSE LET n == Min(f.len, BIOS_FILE_SIZE)
         IN  IF n = BIOS_FILE_SIZE
             THEN Ok([present |-> TRUE, len |-> n, seed |-> f.seed])
             ELSE Err("InvalidInput",
                      "BIOS file must be exactly 512 KB big")

\* BIOS::read_word; indexing self.data at or past its length panics
BIOS_read_word_in_bounds(b, offset) ==
    IF offset + 4 <= BIOS_FILE_SIZE
    THEN Some(LeWord(BiosByte(b, offset), BiosByte(b, offset + 1),
                     BiosByte(b, offset + 2), BiosByte(b, offset + 3)))
    ELSE None

BIOS_read_word(b, offset) ==
    IF offset + 4 >= BIOS_FILE_SIZE
    THEN IF offset + 3 < b.len
         THEN Some(LeWord(BiosByte(b, offset), BiosByte(b, offset + 1),
                          BiosByte(b, offset + 2), BiosByte(b, offset + 3)))
         ELSE Panic("index out of bounds")
    ELSE None

---------------------------------------------------------------------------
(* CPU *)

ZeroRegisters == [i \in 0 .. NUM_REGISTERS - 1 |-> Zero]

\* CPU::new: the set of its outcomes
CPU_new ==
    {StackOverflow}
    \cup {IF m[1] = "Returned"
           THEN Returned([pc |-> BIOS_START, gprs |-> ZeroRegisters,
                          hi |-> Zero, lo |-> Zero, memory |-> m[2]])
           ELSE m : m \in Memory_new_empty}

\* CPU::clear_registers
CPU_clear_registers_and_hi_lo(c) ==
    [c EXCEPT !.gprs = ZeroRegisters, !.hi = Zero, !.lo = Zero]

CPU_clear_registers(c) == [c EXCEPT !.gprs = ZeroRegisters]

\* CPU::increment_pc
CPU_increment_pc_by_one(c) == [c EXCEPT !.pc = WrappingAdd(c.pc, 1)]

CPU_increment_pc(c) == [c EXCEPT !.pc = WrappingAdd(c.pc, INSTRUCTION_SIZE)]

---------------------------------------------------------------------------
(* Initial states *)

Op(name, args) == [op |-> name, arg |-> args]

\* the start of the program: nothing constructed yet
Init ==
    /\ cpu = None
    /\ bios = NoBios
    /\ fault = "none"
    /\ last = Op("start", <<>>)
    /\ ret = Unit
    /\ prev = None
    /\ incs = 0

\* an arbitrary CPU struct: the inputs of the CPU methods taken as
\* functions of the struct
InitAny ==
    /\ \E p \in PcSamples, r \in RegSamples :
          cpu = Some([pc |-> p, gprs |-> r.gprs, hi |-> r.hi, lo |-> r.lo,
                      memory |-> [data |-> ZeroWords]])
    /\ bios = NoBios
    /\ fault = "none"
    /\ last = Op("any", <<>>)
    /\ ret = Unit
    /\ prev = cpu
    /\ incs = 0

\* the CPU that k calls of increment_pc make of c: pc + 4k modulo 2^32
IncrementPcTimes(c, k) ==
    LET n == INSTRUCTION_SIZE * k
    IN  [c EXCEPT !.pc = <<(c.pc[1] + (n \div HALF)
                              + ((c.pc[2] + (n % HALF)) \div HALF)) % HALF,
                            (c.pc[2] + (n % HALF)) % HALF>>]

\* a CPU some way into a run of increment_pc calls from a CPU::new that
\* returned; incs counts the calls made from here on
InitRun ==
    /\ \E k \in RunLengths, c \in CPU_new :
          /\ c[1] = "Returned"
          /\ cpu = Some(IncrementPcTimes(c[2], k))
          /\ last = Op("run", <<k>>)
    /\ bios = NoBios
    /\ fault = "none"
    /\ ret = Unit
    /\ prev = cpu
    /\ incs = 0

---------------------------------------------------------------------------
(* Operations.  A panic ends the session: nothing runs once fault is set. *)

HasCpu == cpu[1] = "Some"

New ==
    /\ fault = "none"
    /\ \E o \in CPU_new :
          /\ cpu' = IF o[1] = "Returned" THEN Some(o[2]) ELSE cpu
          /\ fault' = IF o[1] = "Returned" THEN "none" ELSE o[2]
          /\ ret' = o
    /\ prev' = cpu
    /\ last' = Op("new", <<>>)
    /\ incs' = 0
    /\ UNCHANGED <<bios>>

MemClear ==
    /\ fault = "none"
    /\ HasCpu
    /\ cpu' = Some([cpu[2] EXCEPT !.memory = Memory_clear(cpu[2].memory)])
    /\ prev' = cpu
    /\ last' = Op("clear", <<>>)
    /\ ret' = Unit
    /\ UNCHANGED <<bios, fault, incs>>

MemWrite ==
    /\ fault = "none"
    /\ HasCpu
    /\ \E addr \in Addrs, value \in Values :
          LET w == Memory_write(cpu[2].memory, addr, value)
          IN  /\ cpu' = Some([cpu[2] EXCEPT !.memory = w.memory])
              /\ fault' = IF w.panic THEN "Memory write out of bounds"
                                     ELSE "none"
              /\ ret' = IF w.panic THEN Panic("Memory write out of bounds")
                                   ELSE Unit
              /\ last' = Op("write", <<addr, value>>)
    /\ prev' = cpu
    /\ UNCHANGED <<bios, incs>>

MemRead ==
    /\ fault = "none"
    /\ HasCpu
    /\ \E addr \in Addrs :
          /\ ret' = Memory_read(cpu[2].memory, addr)
          /\ last' = Op("read", <<addr>>)
    /\ prev' = cpu
    /\ UNCHANGED <<cpu, bios, fault, incs>>

BiosNewFromFile ==
    /\ fault = "none"
    /\ \E f \in Files :
          LET r == BIOS_new_from_file(f)
          IN  /\ ret' = r
              /\ bios' = IF r[1] = "Ok" THEN r[2] ELSE bios
              /\ fault' = IF r[1] = "Panic" THEN r[2] ELSE "none"
              /\ last' = Op("new_from_file", <<f>>)
    /\ prev' = cpu
    /\ UNCHANGED <<cpu, incs>>

BiosReadWord ==
    /\ fault = "none"
    /\ bios.present
    /\ \E offset \in Offsets :
          LET r == BIOS_read_word(bios, offset)
          IN  /\ ret' = r
              /\ fault' = IF r[1] = "Panic" THEN r[2] ELSE "none"
              /\ last' = Op("read_word", <<offset>>)
    /\ prev' = cpu
    /\ UNCHANGED <<cpu, bios, incs>>

ClearRegisters ==
    /\ fault = "none"
    /\ HasCpu
    /\ cpu' = Some(CPU_clear_registers(cpu[2]))
    /\ prev' = cpu
    /\ last' = Op("clear_registers", <<>>)
    /\ ret' = Unit
    /\ UNCHANGED <<bios, fault, incs>>

IncrementPc ==
    /\ fault = "none"
    /\ HasCpu
    /\ incs < MaxInc
    /\ cpu' = Some(CPU_increment_pc(cpu[2]))
    /\ prev' = cpu
    /\ last' = Op("increment_pc", <<>>)
    /\ ret' = Unit
    /\ incs' = incs + 1
    /\ UNCHANGED <<bios, fault>>

Next ==
    \/ New
    \/ MemClear
    \/ MemWrite
    \/ MemRead
    \/ BiosNewFromFile
    \/ BiosReadWord
    \/ ClearRegisters
    \/ IncrementPc

Spec == Init /\ [][Next]_vars

SpecAny == InitAny /\ [][Next]_vars

SpecRun == InitRun /\ [][Next]_vars

---------------------------------------------------------------------------
(* Claims *)

IsOp(name) == last.op = name

\* byte k (0 = least significant) of a u32
ByteOf(w, k) ==
    CASE k = 0 -> w[2] % BYTE
      [] k = 1 -> w[2] \div BYTE
      [] k = 2 -> w[1] % BYTE
      [] k = 3 -> w[1] \div BYTE

\* C1: after Memory.write(a, v) with a in range, Memory.read(a) returns
\* the present value v.
C1_WriteReadRoundTrip ==
    (IsOp("write") /\ last.arg[1] < 5 * 1024 * 1024)
        => /\ fault = "none"
           /\ Memory_read(cpu[2].memory, last.arg[1]) = Some(last.arg[2])

\* the last in-range word, holding one non-zero value, is overwritten by
\* another
C1_Witness ==
    /\ IsOp("write")
    /\ last.arg = <<5 * 1024 * 1024 - 1, AllOnes>>
    /\ prev[2].memory.data[5 * 1024 * 1024 - 1] = DeadBeef
    /\ Memory_read(cpu[2].memory, 5 * 1024 * 1024 - 1) = Some(AllOnes)

\* C2: for an address a >= capacity, Memory.read(a) returns "not present",
\* does not halt and changes no word; Memory.write(a, _) ends in the fatal
\* halt and stores into no word.
C2_OutOfRangeReadAbsentWriteFatal ==
    /\ (IsOp("read") /\ last.arg[1] >= 5 * 1024 * 1024)
          => (ret = None /\ fault = "none" /\ cpu = prev)
    /\ (IsOp("write") /\ last.arg[1] >= 5 * 1024 * 1024)
          => (fault # "none" /\ ret[1] = "Panic" /\ cpu = prev)

\* a write at exactly the capacity halts, with non-zero words in memory
C2_Witness ==
    /\ IsOp("write")
    /\ last.arg = <<5 * 1024 * 1024, AllOnes>>
    /\ fault = "Memory write out of bounds"
    /\ prev[2].memory.data[0] = DeadBeef
    /\ cpu[2].memory.data[0] = DeadBeef

\* C3: every operation on a constructed object other than Memory.write
\* (Memory.read, Memory.clear, CPU.clear_registers, CPU.increment_pc,
\* BIOS.read_word) completes without halting and returns a value or
\* "not present".
C3_OnlyWriteHalts ==
    (last.op \in {"read", "clear", "clear_registers", "increment_pc",
                  "read_word"})
        => (fault = "none" /\ ret[1] \in {"Some", "None", "Unit"})

\* C4: BIOS.read_word(offset) returns a word only when offset + 4 >= the
\* firmware size, that word being the little-endian decoding of the bytes
\* at offset .. offset + 3; when offset + 4 < the firmware size it returns
\* "not present".
C4_ReadWordGuard ==
    IsOp("read_word") =>
        LET o == last.arg[1]
        IN  /\ ret[1] = "Some" =>
                  /\ o + 4 >= 512 * 1024
                  /\ \A k \in 0 .. 3 : ByteOf(ret[2], k) = BiosByte(bios, o + k)
            /\ o + 4 < 512 * 1024 => ret = None

\* the last four bytes of an image are decoded, the top byte having its
\* high bit set
C4_Witness ==
    /\ IsOp("read_word")
    /\ last.arg[1] = 512 * 1024 - 4
    /\ ret[1] = "Some"
    /\ ByteOf(ret[2], 3) >= 128
    /\ ByteOf(ret[2], 0) # ByteOf(ret[2], 3)

\* C5: BIOS.new_from_file either yields a BIOS holding exactly the first
\* 512*1024 bytes of the file (the file holding at least that many), or
\* yields a failure and no object: invalid input when the file is shorter,
\* a different I/O failure when the path cannot be opened.  No BIOS of
\* another length exists.
C5_LoadYieldsBiosOrFailure ==
    /\ bios.present => bios.len = 512 * 1024
    /\ IsOp("new_from_file") =>
          LET f == last.arg[1]
          IN  /\ fault = "none"
              /\ ret[1] \in {"Ok", "Err"}
              /\ ret[1] = "Ok" =>
                    /\ f.kind = "file" /\ f.len >= 512 * 1024
                    /\ ret[2].len = 512 * 1024
                    /\ bios = ret[2]
                    /\ \A i \in {0, 1, 2, 3, 512 * 1024 - 1} :
                          BiosByte(ret[2], i) = FileByte(f, i)
              /\ (f.kind = "file" /\ f.len >= 512 * 1024) => ret[1] = "Ok"
              /\ (f.kind = "file" /\ f.len < 512 * 1024)
                    => ret = <<"Err", "InvalidInput",
                               "BIOS file must be exactly 512 KB big">>
              /\ f.kind = "unopenable"
                    => /\ ret[1] = "Err"
                       /\ ret # <<"Err", "InvalidInput",
                                  "BIOS file must be exactly 512 KB big">>

\* C6: CPU.increment_pc sets pc to (pc + 4) mod 2^32 for every pc and
\* never fails; from 0xfffffffc it yields 0.
C6_IncrementPcWraps ==
    IsOp("increment_pc") =>
        /\ fault = "none"
        /\ cpu[2].pc = IF prev[2].pc[2] + 4 < HALF
                     THEN <<prev[2].pc[1], prev[2].pc[2] + 4>>
                     ELSE IF prev[2].pc[1] + 1 < HALF
                     THEN <<prev[2].pc[1] + 1, prev[2].pc[2] + 4 - HALF>>
                     ELSE <<0, prev[2].pc[2] + 4 - HALF>>
        /\ prev[2].pc = <<65535, 65532>> => cpu[2].pc = <<0, 0>>

\* increment_pc taken at 0xfffffffc
C6_Witness ==
    /\ IsOp("increment_pc")
    /\ prev[2].pc = <<65535, 65532>>
    /\ cpu[2].pc = <<0, 0>>

\* C7: in every state reached from CPU.new() by increment_pc and
\* clear_registers calls, wrapping past the top included, pc is a multiple
\* of 4 (2^16 is one, so pc is a multiple of 4 when its low half is).
C7_PcAligned == HasCpu => cpu[2].pc[2] % 4 = 0

\* a run that came from CPU::new, has wrapped past the top and gone on
C7_Witness ==
    /\ cpu[2].pc = <<0, 4>>
    /\ incs = 3
    /\ IsOp("clear_registers")
    /\ cpu[2].memory.data = ZeroWords

\* C8: CPU.clear_registers sets all 32 general-purpose registers to 0 and
\* leaves pc, hi, lo and every memory word unchanged.
C8_ClearRegistersFrame ==
    IsOp("clear_registers") =>
        /\ DOMAIN cpu[2].gprs = 0 .. 31
        /\ \A i \in 0 .. 31 : cpu[2].gprs[i] = <<0, 0>>
        /\ cpu[2].pc = prev[2].pc
        /\ cpu[2].hi = prev[2].hi
        /\ cpu[2].lo = prev[2].lo
        /\ cpu[2].memory = prev[2].memory
        /\ fault = "none"

\* clear_registers taken with every register, hi, lo and a memory word
\* non-zero
C8_Witness ==
    /\ IsOp("clear_registers")
    /\ \A i \in 0 .. 31 : prev[2].gprs[i] # <<0, 0>>
    /\ prev[2].hi = AllOnes
    /\ prev[2].lo = <<0, 1>>
    /\ prev[2].memory.data[1] = DeadBeef
    /\ cpu[2].gprs[31] = <<0, 0>>

\* C9: after any in-range writes, Memory.clear() makes every in-range
\* address read the present value 0; it never fails and leaves the
\* capacity as it was (addresses from the capacity on still read "not
\* present").
C9_ClearZeroes ==
    IsOp("clear") =>
        /\ \A a \in InRangeAddrs : Memory_read(cpu[2].memory, a) = Some(<<0, 0>>)
        /\ \A a \in OutOfRangeAddrs : Memory_read(cpu[2].memory, a) = None
        /\ fault = "none"
        /\ ret = Unit

\* clear taken with the first, second and last word all non-zero
C9_Witness ==
    /\ IsOp("clear")
    /\ \A a \in InRangeAddrs : prev[2].memory.data[a] # Zero
    /\ cpu[2].memory.data[1] = Zero

\* C10: CPU.new() yields pc = 0xbfc00000, all 32 registers, hi and lo 0,
\* and a memory every in-range address of which reads 0.
C10_NewState ==
    IsOp("new") =>
        /\ fault = "none"
        /\ HasCpu
        /\ cpu[2].pc = <<49088, 0>>
        /\ DOMAIN cpu[2].gprs = 0 .. 31
        /\ \A i \in 0 .. 31 : cpu[2].gprs[i] = <<0, 0>>
        /\ cpu[2].hi = <<0, 0>>
        /\ cpu[2].lo = <<0, 0>>
        /\ \A a \in InRangeAddrs :
              Memory_read(cpu[2].memory, a) = Some(<<0, 0>>)

===========================================================================
